---- MODULE Spec2Model ----
(***************************************************************************)
(* Model of hocalarportfolyo.py: the Streamlit script that loads a sheet   *)
(* of tickers and targets, downloads live prices (bulk 1m, bulk 1d, then   *)
(* per-symbol fast_info/history) and highlights the reached targets.       *)
(*                                                                         *)
(* Python strings are sequences of one-character strings.  Python floats   *)
(* are tagged tuples: <<"num", n, k>> is the decimal n / 10^k (k minimal), *)
(* NaN, Inf and None are the values of those names below.                  *)
(***************************************************************************)
EXTENDS Integers, Sequences, FiniteSets

VARIABLES
    pc,          \* position of the run in the specification at hand
    bist_code,   \* to_yahoo_symbol: the argument
    sym1,        \* to_yahoo_symbol(bist_code)
    sym2,        \* to_yahoo_symbol(sym1)
    raw_cell,    \* _to_float_series_tr: one cell of the series, as text
    cleaned,     \* the cell after the str.replace / strip / regex chain
    parsed,      \* the float (or NaN) _one returns for it
    bist_tickers,\* download_prices_batch: the argument
    prices,      \* the dict prices: ticker -> None or a float
    src,         \* ticker -> the symbol whose bulk entry its price was read from
    m1,          \* the 1m bulk query: issued?, its symbols, the kind of answer
    d1,          \* the 1d bulk query: issued?, its tickers (missing), its symbols, the kind of answer
    still,       \* the list still of line 173
    i3,          \* how many tickers of still the loop of line 174 has done
    fast_seen,   \* ticker -> the finite last_price its fast_info answered with, if it did
    last3,       \* the provider's answers in the loop's latest iteration
    columns,     \* raw_df.columns, after _normalize_cols
    rows,        \* raw_df's rows: the text of the Ticker and the two target cells
    error,       \* what the run reported with st.error / st.warning before st.stop()
    display,     \* display_df, the result of prepare_display
    styles       \* per row of display_df and per column: is the cell highlighted

symVars == <<bist_code, sym1, sym2>>
parseVars == <<raw_cell, cleaned, parsed>>
dlVars == <<bist_tickers, prices, src, m1, d1, still, i3, fast_seen, last3>>
runVars == <<columns, rows, error, display, styles>>
vars == <<pc, symVars, parseVars, dlVars, runVars>>

(***************************************************************************)
(* Bounds                                                                  *)
(***************************************************************************)
MaxCodeLen == 5
MaxCellLen == 5
MaxTickers == 3
MaxRows == 2

(***************************************************************************)
(* Python values                                                           *)
(***************************************************************************)
None == <<"None">>
NaN == <<"nan">>
Inf == <<"inf">>

RECURSIVE SeqsOver(_, _)
SeqsOver(S, n) ==
    IF n = 0 THEN {<<>>}
    ELSE LET shorter == SeqsOver(S, n - 1)
         IN shorter \cup {Append(s, c) : s \in {t \in shorter : Len(t) = n - 1}, c \in S}

\* str.strip(): the characters Python treats as whitespace
Whitespace == {" ", "NBSP"}

RECURSIVE LStrip(_)
LStrip(s) == IF s # <<>> /\ Head(s) \in Whitespace THEN LStrip(Tail(s)) ELSE s

RECURSIVE RStrip(_)
RStrip(s) ==
    IF s # <<>> /\ s[Len(s)] \in Whitespace THEN RStrip(SubSeq(s, 1, Len(s) - 1)) ELSE s

Strip(s) == RStrip(LStrip(s))

\* str.upper() on the characters of the ticker alphabet
UpperChar(c) ==
    CASE c = "a" -> "A"
      [] c = "i" -> "I"
      [] c = "s" -> "S"
      [] OTHER -> c

Upper(s) == [i \in 1..Len(s) |-> UpperChar(s[i])]

EndsWith(s, suffix) ==
    /\ Len(s) >= Len(suffix)
    /\ SubSeq(s, Len(s) - Len(suffix) + 1, Len(s)) = suffix

DotIS == <<".", "I", "S">>

(***************************************************************************)
(* to_yahoo_symbol                                                         *)
(***************************************************************************)
\* lines 109-113 (to_yahoo_symbol_always_append: without the endswith test)
to_yahoo_symbol_always_append(code_in) ==
    LET code == Upper(Strip(IF code_in = None THEN <<>> ELSE code_in))
    IN IF code = <<>> THEN <<>> ELSE code \o DotIS

to_yahoo_symbol(code_in) ==
    LET code == Upper(Strip(IF code_in = None THEN <<>> ELSE code_in))
    IN IF code = <<>> THEN <<>>
       ELSE IF EndsWith(code, DotIS) THEN code ELSE code \o DotIS

(***************************************************************************)
(* _to_float_series_tr                                                     *)
(***************************************************************************)
Digits == {"0", "1", "2", "3", "4", "5", "6", "7", "8", "9"}

DigitVal(c) ==
    CASE c = "0" -> 0 [] c = "1" -> 1 [] c = "2" -> 2 [] c = "3" -> 3 [] c = "4" -> 4
      [] c = "5" -> 5 [] c = "6" -> 6 [] c = "7" -> 7 [] c = "8" -> 8 [] c = "9" -> 9

\* str.replace(old, new) for a one-character old; new is a string
RECURSIVE Replace(_, _, _)
Replace(s, old, new) ==
    IF s = <<>> THEN <<>>
    ELSE (IF Head(s) = old THEN new ELSE <<Head(s)>>) \o Replace(Tail(s), old, new)

Contains(s, c) == \E i \in 1..Len(s) : s[i] = c

\* str.rfind(c): 0-based index of the last occurrence, -1 when absent
RFind(s, c) ==
    IF Contains(s, c) THEN (CHOOSE i \in 1..Len(s) : s[i] = c /\ \A j \in (i + 1)..Len(s) : s[j] # c) - 1
    ELSE -1

IsKept(c) == c \in Digits \cup {",", ".", "-"}

\* lines 73-76: NBSP -> space, strip, then drop all but 0-9 , . -
CleanCell(s) == SelectSeq(Strip(Replace(s, "NBSP", <<" ">>)), IsKept)

RECURSIVE DigitsValue(_)
DigitsValue(s) == IF s = <<>> THEN 0 ELSE 10 * DigitsValue(SubSeq(s, 1, Len(s) - 1)) + DigitVal(s[Len(s)])

RECURSIVE Normalize(_, _)
Normalize(n, k) == IF k > 0 /\ n % 10 = 0 THEN Normalize(n \div 10, k - 1) ELSE <<"num", n, k>>

Num(n, k) == IF n < 0 THEN LET m == Normalize(-n, k) IN <<"num", -m[2], m[3]>> ELSE Normalize(n, k)

IsNum(x) == Len(x) = 3 /\ x[1] = "num"

\* Python float(v) on text made of digits, '.' and '-': the number, or Raised
Raised == <<"raised">>

PyFloat(v) ==
    LET neg == v # <<>> /\ Head(v) = "-"
        body == IF neg THEN Tail(v) ELSE v
        dot == RFind(body, ".") + 1
        ip == IF dot = 0 THEN body ELSE SubSeq(body, 1, dot - 1)
        fp == IF dot = 0 THEN <<>> ELSE SubSeq(body, dot + 1, Len(body))
        ok == /\ \A i \in 1..Len(ip) : ip[i] \in Digits
              /\ \A i \in 1..Len(fp) : fp[i] \in Digits
              /\ Len(ip) + Len(fp) > 0
        mag == DigitsValue(ip \o fp)
    IN IF ok THEN Num(IF neg THEN -mag ELSE mag, Len(fp)) ELSE Raised

\* lines 78-94 (_one_rfind_swapped: with the comparison of line 83 reversed)
_one_rfind_swapped(v) ==
    IF v \in {<<>>, <<"-">>, <<".">>, <<",">>} THEN NaN
    ELSE LET w == IF Contains(v, ",") /\ Contains(v, ".")
                  THEN IF RFind(v, ",") < RFind(v, ".")
                       THEN Replace(Replace(v, ".", <<>>), ",", <<".">>)
                       ELSE Replace(v, ",", <<>>)
                  ELSE IF Contains(v, ",") /\ ~Contains(v, ".")
                       THEN Replace(v, ",", <<".">>)
                       ELSE v
             f == PyFloat(w)
         IN IF f = Raised THEN NaN ELSE f

_one(v) ==
    IF v \in {<<>>, <<"-">>, <<".">>, <<",">>} THEN NaN
    ELSE LET w == IF Contains(v, ",") /\ Contains(v, ".")
                  THEN IF RFind(v, ",") > RFind(v, ".")
                       THEN Replace(Replace(v, ".", <<>>), ",", <<".">>)
                       ELSE Replace(v, ",", <<>>)
                  ELSE IF Contains(v, ",") /\ ~Contains(v, ".")
                       THEN Replace(v, ",", <<".">>)
                       ELSE v
             f == PyFloat(w)
         IN IF f = Raised THEN NaN ELSE f

\* the series map, for one cell
_to_float_series_tr(cell) == _one(CleanCell(cell))

(***************************************************************************)
(* download_prices_batch                                                   *)
(***************************************************************************)
Range(q) == {q[i] : i \in 1..Len(q)}

Min(a, b) == IF a < b THEN a ELSE b

\* np.isfinite on a float
IsFinite(x) == IsNum(x)

\* what the provider can hold for a symbol
Absent == <<"absent">>      \* no entry, no Close, only NaN closes, empty frame: the read raises
Throws == <<"throws">>      \* the query itself raises
Empty == <<"empty">>        \* history(): an empty frame, or one without Close
NotAsked == <<"not asked">>
P_M1 == <<"num", 51, 0>>    \* the finite closes and prices the provider answers with
P_D1 == <<"num", 52, 0>>
P_FAST == <<"num", 53, 0>>
P_HIST == <<"num", 54, 0>>

\* dict keys in insertion order: the first occurrences in the list
RECURSIVE Dedup(_)
Dedup(q) ==
    IF q = <<>> THEN <<>>
    ELSE LET front == Dedup(SubSeq(q, 1, Len(q) - 1))
         IN IF q[Len(q)] \in Range(front) THEN front ELSE Append(front, q[Len(q)])

\* line 117 (InitPrices_skip_empty: with the "if t" of line 118)
InitPrices_skip_empty(tickers) == [t \in Range(tickers) \ {<<>>} |-> None]

InitPrices(tickers) == [t \in Range(tickers) |-> None]

\* line 118: the symbols of the tickers that are truthy
IsTruthy(t) == t # <<>>

Symbols(tickers) ==
    LET kept == SelectSeq(tickers, IsTruthy)
    IN [i \in 1..Len(kept) |-> to_yahoo_symbol(kept[i])]

\* lines 145 and 173: [b for b, px in prices.items() if px is None]
\* (MissingOf_all: the list without the "if px is None")
MissingOf_all(tickers, px) == Dedup(tickers)

MissingOf(tickers, px) ==
    LET IsNone(b) == px[b] = None
    IN SelectSeq(Dedup(tickers), IsNone)

StillOf(tickers, px) ==
    LET IsNone(b) == px[b] = None
    IN SelectSeq(Dedup(tickers), IsNone)

\* the answers yf.download can give to a query for syms: it raises, or it
\* returns a frame with MultiIndex columns (an entry per symbol), or, for at
\* most one symbol, a frame with flat columns; the provider holds nothing
\* for the empty symbol
BulkAnswers(syms, p) ==
    {[kind |-> "throws", data |-> <<>>, val |-> Absent]}
    \cup {[kind |-> "multi", data |-> f, val |-> Absent] :
            f \in {g \in [Range(syms) -> {Absent, Inf, p}] :
                     \A y \in Range(syms) : y = <<>> => g[y] = Absent}}
    \cup (IF Len(syms) = 1 /\ syms[1] # <<>>
          THEN {[kind |-> "flat", data |-> <<>>, val |-> v] : v \in {Absent, Inf, p}}
          ELSE IF Len(syms) <= 1
          THEN {[kind |-> "flat", data |-> <<>>, val |-> Absent]}
          ELSE {})

\* lines 127-134 and 154-161: the loop over zip(bists, syms), from pair i on
RECURSIVE ZipAssign(_, _, _, _, _)
ZipAssign(bists, syms, data, st, i) ==
    IF i > Min(Len(bists), Len(syms)) THEN st
    ELSE LET val == data[syms[i]]
             st2 == IF val # Absent /\ IsFinite(val)
                    THEN [prices |-> [st.prices EXCEPT ![bists[i]] = val],
                          src |-> [st.src EXCEPT ![bists[i]] = syms[i]]]
                    ELSE st
         IN ZipAssign(bists, syms, data, st2, i + 1)

\* lines 120-142 on the answer r
Stage1(tickers, st, r) ==
    LET symbols == Symbols(tickers)
    IN CASE r.kind = "throws" -> st
         [] r.kind = "multi" -> ZipAssign(tickers, symbols, r.data, st, 1)
         [] r.kind = "flat" ->
                IF r.val # Absent /\ Len(tickers) = 1
                THEN [prices |-> [st.prices EXCEPT ![tickers[1]] = r.val],
                      src |-> [st.src EXCEPT ![tickers[1]] = symbols[1]]]
                ELSE st

\* lines 147-170 on the answer r
Stage2(missing, st, r) ==
    LET sym_mis == [i \in 1..Len(missing) |-> to_yahoo_symbol(missing[i])]
    IN CASE r.kind = "throws" -> st
         [] r.kind = "multi" -> ZipAssign(missing, sym_mis, r.data, st, 1)
         [] r.kind = "flat" ->
                IF r.val # Absent /\ Len(missing) = 1 /\ IsFinite(r.val)
                THEN [prices |-> [st.prices EXCEPT ![missing[1]] = r.val],
                      src |-> [st.src EXCEPT ![missing[1]] = sym_mis[1]]]
                ELSE st

\* what the provider answers for one symbol: yf.Ticker raises, or fast_info
\* answers fast and history(5d, 1d) answers (or would answer) hist
FastAnswers == {Throws, None, NaN, Inf, P_FAST}
HistAnswers == {Throws, Empty, Absent, Inf, P_HIST}
SingleAnswers(sym) ==
    {<<"throws", NotAsked, NotAsked>>}
    \cup (IF sym = <<>>
          THEN {<<"ok", Throws, Throws>>, <<"ok", None, Empty>>}
          ELSE {<<"ok", fast, hist>> : fast \in FastAnswers, hist \in HistAnswers})

\* lines 177-189: the body of the outer try; Raised when an exception leaves it
SingleSymbolBody(tk, fast, hist) ==
    IF tk = "throws" THEN Raised
    ELSE LET lp1 == IF fast = Throws THEN None ELSE fast
         IN IF lp1 = None
            THEN CASE hist = Throws -> Raised
                   [] hist = Empty -> None
                   [] hist = Absent -> Raised
                   [] OTHER -> IF IsFinite(hist) THEN hist ELSE None
            ELSE IF IsFinite(lp1) THEN lp1 ELSE None

\* lines 176-191: what prices[bist] is after the iteration (it was None before)
\* (SingleSymbolPrice_no_outer_except: without the except of lines 190-191)
SingleSymbolPrice_no_outer_except(tk, fast, hist) == SingleSymbolBody(tk, fast, hist)

SingleSymbolPrice(tk, fast, hist) ==
    LET got == SingleSymbolBody(tk, fast, hist)
    IN IF got = Raised THEN None ELSE got

(***************************************************************************)
(* prepare_display and style_targets                                       *)
(* (column names are written without the Turkish letters)                  *)
(***************************************************************************)
RequiredCols == {"Ticker", "AVWAP HEDEF+4 (TRY)", "AVWAP HEDEF+4 (EUR)"}

DisplayCols == {"Hisse Adi", "Hisse Fiyati", "VWAP Yuzde 30 Hedef", "VWAP TL Hedef", "VWAP EURO HEDEF"}

TargetCols == {"VWAP Yuzde 30 Hedef", "VWAP TL Hedef", "VWAP EURO HEDEF"}

RECURSIVE Pow10(_)
Pow10(k) == IF k = 0 THEN 1 ELSE 10 * Pow10(k - 1)

\* x / 2.0 on a float
Half(x) == IF IsNum(x) THEN Num(x[2] * 5, x[3] + 1) ELSE x

\* pd.notna
NotNa(x) == x # None /\ x # NaN

\* a > b and a >= b on floats that are not NaN
Gt(a, b) ==
    IF a = Inf THEN b # Inf
    ELSE IF b = Inf THEN FALSE
    ELSE a[2] * Pow10(b[3]) > b[2] * Pow10(a[3])

Ge(a, b) ==
    IF a = Inf THEN TRUE
    ELSE IF b = Inf THEN FALSE
    ELSE a[2] * Pow10(b[3]) >= b[2] * Pow10(a[3])

\* lines 212-214: the required columns the frame lacks
MissingRequired(cols) == RequiredCols \ cols

\* Series.map(live_prices): NaN for a ticker that is no key or maps to None
MapPrice(live, t) == IF t \in DOMAIN live /\ live[t] # None THEN live[t] ELSE NaN

\* lines 216-230, for one row
DisplayRow(row, live) ==
    LET try == _to_float_series_tr(row.TRY)
        eur == _to_float_series_tr(row.EUR)
    IN [c \in DisplayCols |->
          CASE c = "Hisse Adi" -> row.Ticker
            [] c = "Hisse Fiyati" -> MapPrice(live, row.Ticker)
            [] c = "VWAP Yuzde 30 Hedef" -> Half(try)
            [] c = "VWAP TL Hedef" -> try
            [] c = "VWAP EURO HEDEF" -> eur]

prepare_display(df_rows, live) == [i \in 1..Len(df_rows) |-> DisplayRow(df_rows[i], live)]

\* lines 237-249: _row_style, True where the background colour is set
\* (_row_style_strict: with > for >=)
_row_style_strict(row) ==
    LET price == row["Hisse Fiyati"]
    IN [c \in DisplayCols |->
          IF c \in TargetCols
          THEN NotNa(price) /\ NotNa(row[c]) /\ Gt(price, row[c])
          ELSE FALSE]

_row_style(row) ==
    LET price == row["Hisse Fiyati"]
    IN [c \in DisplayCols |->
          IF c \in TargetCols
          THEN NotNa(price) /\ NotNa(row[c]) /\ Ge(price, row[c])
          ELSE FALSE]

style_targets(df) == [i \in 1..Len(df) |-> _row_style(df[i])]

(***************************************************************************)
(* The script's own lines                                                  *)
(***************************************************************************)
\* code points of the characters, for sorted()
CharRank(c) ==
    CASE c = " " -> 32 [] c = "." -> 46 [] c = "A" -> 65 [] c = "I" -> 73 [] c = "S" -> 83
      [] c = "a" -> 97 [] c = "i" -> 105 [] c = "s" -> 115 [] OTHER -> 160

RECURSIVE StrLess(_, _)
StrLess(a, b) ==
    IF b = <<>> THEN FALSE
    ELSE IF a = <<>> THEN TRUE
    ELSE IF Head(a) = Head(b) THEN StrLess(Tail(a), Tail(b))
    ELSE CharRank(Head(a)) < CharRank(Head(b))

\* sorted(S) for a set of strings
RECURSIVE Sorted(_)
Sorted(S) ==
    IF S = {} THEN <<>>
    ELSE LET lo == CHOOSE x \in S : \A y \in S \ {x} : StrLess(x, y)
         IN <<lo>> \o Sorted(S \ {lo})

\* line 282: the distinct texts of the Ticker column
AllTickers(df_rows) == {df_rows[i].Ticker : i \in 1..Len(df_rows)}

\* line 305: the rows whose ticker is selected
FilterRows(df_rows, tickers) ==
    LET IsIn(r) == r.Ticker \in Range(tickers)
    IN SelectSeq(df_rows, IsIn)

NoError == [kind |-> "none", cols |-> {}]

(***************************************************************************)
(* Values of the variables a specification does not use                    *)
(***************************************************************************)
IdleSym ==
    /\ bist_code = None
    /\ sym1 = None
    /\ sym2 = None

IdleParse ==
    /\ raw_cell = <<>>
    /\ cleaned = None
    /\ parsed = None

NoQuery == [issued |-> FALSE, tickers |-> <<>>, symbols |-> <<>>, kind |-> "none"]

NoLast == [ticker |-> None, tk |-> "none", fast |-> NotAsked, hist |-> NotAsked]

IdleDl ==
    /\ bist_tickers = <<>>
    /\ prices = <<>>
    /\ src = <<>>
    /\ m1 = NoQuery
    /\ d1 = NoQuery
    /\ still = <<>>
    /\ i3 = 0
    /\ fast_seen = <<>>
    /\ last3 = NoLast

IdleRun ==
    /\ columns = {}
    /\ rows = <<>>
    /\ error = NoError
    /\ display = <<>>
    /\ styles = <<>>

(***************************************************************************)
(* SpecParse: _to_float_series_tr applied to one cell                      *)
(***************************************************************************)
CellAlphabet == {"0", "1", ",", ".", "-", "x"}

ExampleCells == {
    <<"1", ".", "2", "3", "4", ",", "5", "6">>,
    <<"1", ",", "2", "3", "4", ".", "5", "6">>,
    <<"1", "2", "3", ",", "4", "5">>,
    <<"1", "0", "0", ",", "0", "0">>,
    <<"5", ",", "0", "0">>,
    <<" ", "1", "NBSP", "2", "3", "4", ",", "5", " ">>,
    <<"n", "a", "n">> }

InitParse ==
    /\ pc = "parse_start"
    /\ raw_cell \in SeqsOver(CellAlphabet, MaxCellLen) \cup ExampleCells
    /\ cleaned = None
    /\ parsed = None
    /\ IdleSym
    /\ IdleDl
    /\ IdleRun

ToFloatSeriesTr ==
    /\ pc = "parse_start"
    /\ cleaned' = CleanCell(raw_cell)
    /\ parsed' = _to_float_series_tr(raw_cell)
    /\ pc' = "parse_done"
    /\ UNCHANGED <<raw_cell, symVars, dlVars, runVars>>

NextParse == ToFloatSeriesTr

SpecParse == InitParse /\ [][NextParse]_vars

(***************************************************************************)
(* SpecSym: to_yahoo_symbol applied once and then to its own result        *)
(***************************************************************************)
CodeAlphabet == {" ", ".", "a", "A", "i", "I", "S"}

InitSym ==
    /\ pc = "sym_start"
    /\ bist_code \in SeqsOver(CodeAlphabet, MaxCodeLen) \cup {None}
    /\ sym1 = None
    /\ sym2 = None
    /\ IdleParse
    /\ IdleDl
    /\ IdleRun

MapOnce ==
    /\ pc = "sym_start"
    /\ sym1' = to_yahoo_symbol(bist_code)
    /\ pc' = "sym_once"
    /\ UNCHANGED <<bist_code, sym2, parseVars, dlVars, runVars>>

MapTwice ==
    /\ pc = "sym_once"
    /\ sym2' = to_yahoo_symbol(sym1)
    /\ pc' = "sym_twice"
    /\ UNCHANGED <<bist_code, sym1, parseVars, dlVars, runVars>>

NextSym == MapOnce \/ MapTwice

SpecSym == InitSym /\ [][NextSym]_vars

(***************************************************************************)
(* Spec: one call of download_prices_batch                                 *)
(***************************************************************************)
TickerPool == {<<>>, <<"a">>, <<"S">>, <<"I">>}

Init ==
    /\ pc = "call"
    /\ bist_tickers \in SeqsOver(TickerPool, MaxTickers)
    /\ prices = <<>>
    /\ src = <<>>
    /\ m1 = NoQuery
    /\ d1 = NoQuery
    /\ still = <<>>
    /\ i3 = 0
    /\ fast_seen = <<>>
    /\ last3 = NoLast
    /\ IdleSym
    /\ IdleParse
    /\ IdleRun

\* lines 117-142
BulkMinute ==
    /\ pc = "call"
    /\ \E r \in BulkAnswers(Symbols(bist_tickers), P_M1) :
         LET st == Stage1(bist_tickers,
                          [prices |-> InitPrices(bist_tickers),
                           src |-> [t \in Range(bist_tickers) |-> None]], r)
         IN /\ prices' = st.prices
            /\ src' = st.src
            /\ m1' = [issued |-> TRUE, tickers |-> bist_tickers,
                      symbols |-> Symbols(bist_tickers), kind |-> r.kind]
    /\ fast_seen' = [t \in Range(bist_tickers) |-> NotAsked]
    /\ pc' = "m1done"
    /\ UNCHANGED <<bist_tickers, d1, still, i3, last3, symVars, parseVars, runVars>>

\* lines 144-173
BulkDaily ==
    /\ pc = "m1done"
    /\ LET missing == MissingOf(bist_tickers, prices)
       IN IF missing # <<>>
          THEN \E r \in BulkAnswers([i \in 1..Len(missing) |-> to_yahoo_symbol(missing[i])], P_D1) :
                 LET st == Stage2(missing, [prices |-> prices, src |-> src], r)
                 IN /\ prices' = st.prices
                    /\ src' = st.src
                    /\ d1' = [issued |-> TRUE, tickers |-> missing,
                              symbols |-> [i \in 1..Len(missing) |-> to_yahoo_symbol(missing[i])],
                              kind |-> r.kind]
          ELSE UNCHANGED <<prices, src, d1>>
    /\ still' = StillOf(bist_tickers, prices')
    /\ pc' = "d1done"
    /\ UNCHANGED <<bist_tickers, m1, i3, fast_seen, last3, symVars, parseVars, runVars>>

\* lines 174-191, one iteration
SingleSymbol ==
    /\ pc = "d1done"
    /\ i3 < Len(still)
    /\ \E a \in SingleAnswers(to_yahoo_symbol(still[i3 + 1])) :
         LET tk == a[1]
             fast == a[2]
             hist == a[3]
             bist == still[i3 + 1]
             got == SingleSymbolPrice(tk, fast, hist)
         IN /\ IF got = Raised
               THEN pc' = "raised" /\ UNCHANGED prices
               ELSE pc' = "d1done" /\ prices' = [prices EXCEPT ![bist] = got]
            /\ fast_seen' = [fast_seen EXCEPT ![bist] =
                                IF tk = "ok" /\ IsFinite(fast) THEN fast ELSE NotAsked]
            /\ last3' = [ticker |-> bist, tk |-> tk, fast |-> fast, hist |-> hist]
    /\ i3' = i3 + 1
    /\ UNCHANGED <<bist_tickers, src, m1, d1, still, symVars, parseVars, runVars>>

\* line 193
Return ==
    /\ pc = "d1done"
    /\ i3 = Len(still)
    /\ pc' = "returned"
    /\ UNCHANGED <<dlVars, symVars, parseVars, runVars>>

Next == BulkMinute \/ BulkDaily \/ SingleSymbol \/ Return

Spec == Init /\ [][Next]_vars

(***************************************************************************)
(* SpecRun: one run of the script, from the sheet's load to the styled     *)
(* table; SpecEval: the same run from the return of download_prices_batch  *)
(***************************************************************************)
SheetTickers == {<<"A">>, <<"S">>}
TryCells == {<<>>, <<"1", "0", "0", ",", "0", "0">>, <<"1", ".", "1", "1", "0", ",", "0">>}
EurCells == {<<"-">>, <<"5", ",", "0", "0">>}
LivePrices == {None, Inf, <<"num", 50, 0>>, <<"num", 55, 0>>}

\* the sheets with the columns cols: a cell of a column the sheet lacks is empty
SheetRows(cols) ==
    {q \in SeqsOver([Ticker : IF "Ticker" \in cols THEN SheetTickers ELSE {<<>>},
                     TRY : IF "AVWAP HEDEF+4 (TRY)" \in cols THEN TryCells ELSE {<<>>},
                     EUR : IF "AVWAP HEDEF+4 (EUR)" \in cols THEN EurCells ELSE {<<>>}],
                    MaxRows) : TRUE}

InitRun ==
    /\ pc = "load"
    /\ columns \in SUBSET RequiredCols
    /\ rows \in SheetRows(columns)
    /\ error = NoError
    /\ display = <<>>
    /\ styles = <<>>
    /\ IdleDl
    /\ IdleSym
    /\ IdleParse

\* lines 269-275
LoadSheet ==
    /\ pc = "load"
    /\ \E ok \in BOOLEAN :
         IF ok THEN pc' = "loaded" /\ UNCHANGED error
         ELSE pc' = "stopped" /\ error' = [kind |-> "load", cols |-> {}]
    /\ UNCHANGED <<columns, rows, display, styles, dlVars, symVars, parseVars>>

\* lines 277-285
ListTickers ==
    /\ pc = "loaded"
    /\ IF "Ticker" \notin columns
       THEN pc' = "stopped" /\ error' = [kind |-> "ticker", cols |-> {"Ticker"}]
       ELSE IF AllTickers(rows) = {}
       THEN pc' = "stopped" /\ error' = [kind |-> "no tickers", cols |-> {}]
       ELSE pc' = "listed" /\ UNCHANGED error
    /\ UNCHANGED <<columns, rows, display, styles, dlVars, symVars, parseVars>>

\* lines 287-302: the multiselect, and the call of download_prices_batch
SelectTickers ==
    /\ pc = "listed"
    /\ \E selected \in SUBSET AllTickers(rows) :
         bist_tickers' = Sorted(IF selected # {} THEN selected ELSE AllTickers(rows))
    /\ pc' = "call"
    /\ UNCHANGED <<prices, src, m1, d1, still, i3, fast_seen, last3, runVars, symVars, parseVars>>

\* lines 304-311
PrepareDisplay ==
    /\ pc = "returned"
    /\ IF MissingRequired(columns) # {}
       THEN /\ pc' = "stopped"
            /\ error' = [kind |-> "schema", cols |-> MissingRequired(columns)]
            /\ UNCHANGED display
       ELSE /\ pc' = "prepared"
            /\ display' = prepare_display(FilterRows(rows, bist_tickers), prices)
            /\ UNCHANGED error
    /\ UNCHANGED <<columns, rows, styles, dlVars, symVars, parseVars>>

\* lines 313-314
StyleTargets ==
    /\ pc = "prepared"
    /\ styles' = style_targets(display)
    /\ pc' = "styled"
    /\ UNCHANGED <<columns, rows, error, display, dlVars, symVars, parseVars>>

NextRun ==
    \/ LoadSheet \/ ListTickers \/ SelectTickers
    \/ BulkMinute \/ BulkDaily \/ SingleSymbol \/ Return
    \/ PrepareDisplay \/ StyleTargets

SpecRun == InitRun /\ [][NextRun]_vars

\* the run at the return of download_prices_batch: a sheet with a Ticker
\* column and a row, the tickers selected from it, and a mapping over them
InitEval ==
    /\ pc = "returned"
    /\ columns \in {c \in SUBSET RequiredCols : "Ticker" \in c}
    /\ rows \in SheetRows(columns) \ {<<>>}
    /\ \E selected \in SUBSET AllTickers(rows) \ {{}} : bist_tickers = Sorted(selected)
    /\ prices \in [Range(bist_tickers) -> LivePrices]
    /\ error = NoError
    /\ display = <<>>
    /\ styles = <<>>
    /\ src = <<>>
    /\ m1 = NoQuery
    /\ d1 = NoQuery
    /\ still = <<>>
    /\ i3 = 0
    /\ fast_seen = <<>>
    /\ last3 = NoLast
    /\ IdleSym
    /\ IdleParse

NextEval == PrepareDisplay \/ StyleTargets

SpecEval == InitEval /\ [][NextEval]_vars

(***************************************************************************)
(* Claims                                                                  *)
(***************************************************************************)

\* the text of a cell with every character but 0-9 , . - removed
KeptText(s) == SelectSeq(s, IsKept)

LastPos(v, c) == CHOOSE i \in 1..Len(v) : v[i] = c /\ \A j \in 1..Len(v) : v[j] = c => j <= i

\* the text read with the rightmost of , and . as the decimal separator (a
\* lone comma kind is the decimal separator) and the other kind dropped
DecimalText(v) ==
    LET hasC == \E i \in 1..Len(v) : v[i] = ","
        hasD == \E i \in 1..Len(v) : v[i] = "."
        dec == IF hasC /\ hasD
               THEN (IF LastPos(v, ",") > LastPos(v, ".") THEN "," ELSE ".")
               ELSE IF hasC THEN "," ELSE "."
        thousands == IF hasC /\ hasD THEN (IF dec = "," THEN "." ELSE ",") ELSE "no such"
        NotThousands(c) == c # thousands
        w == SelectSeq(v, NotThousands)
    IN [i \in 1..Len(w) |-> IF w[i] = dec THEN "." ELSE w[i]]

\* a decimal numeral: optional leading minus, at least one digit, at most one point
WellFormed(w) ==
    /\ \E i \in 1..Len(w) : w[i] \in Digits
    /\ \A i \in 1..Len(w) : w[i] = "-" => i = 1
    /\ Cardinality({i \in 1..Len(w) : w[i] = "."}) <= 1

\* C8: with v the cell's text after removing every character except digits,
\* comma, period and minus: "", "-", "." and "," parse to missing; the
\* rightmost of comma and period is the decimal separator and the other kind
\* is dropped; a lone comma kind is the decimal separator; whatever is then no
\* valid number parses to missing; "1.234,56" and "1,234.56" give 1234.56 and
\* "123,45" gives 123.45; a text without a digit never gives a number.
C8_NumericParser ==
    pc = "parse_done" =>
        LET v == KeptText(raw_cell)
            w == DecimalText(v)
        IN /\ cleaned = v
           /\ v \in {<<>>, <<"-">>, <<".">>, <<",">>} => parsed = NaN
           /\ parsed = (IF WellFormed(w) THEN PyFloat(w) ELSE NaN)
           /\ parsed = NaN \/ IsNum(parsed)
           /\ (\A i \in 1..Len(v) : v[i] \notin Digits) => parsed = NaN
           /\ raw_cell = <<"1", ".", "2", "3", "4", ",", "5", "6">> => parsed = <<"num", 123456, 2>>
           /\ raw_cell = <<"1", ",", "2", "3", "4", ".", "5", "6">> => parsed = <<"num", 123456, 2>>
           /\ raw_cell = <<"1", "2", "3", ",", "4", "5">> => parsed = <<"num", 12345, 2>>

C8_Witness ==
    /\ pc = "parse_done"
    /\ raw_cell = <<"1", ".", "2", "3", "4", ",", "5", "6">>
    /\ parsed = <<"num", 123456, 2>>

\* C9: to_yahoo_symbol is idempotent; its result is empty for an empty, None or
\* whitespace-only ticker and otherwise the trimmed upper-cased ticker, with
\* ".IS" appended exactly when it does not already end in ".IS".
C9_SymbolMappingIdempotent ==
    LET t == IF bist_code = None THEN <<>> ELSE bist_code
        blank == \A i \in 1..Len(t) : t[i] \in Whitespace
        code == Upper(Strip(t))
    IN /\ pc = "sym_twice" => sym2 = sym1
       /\ pc \in {"sym_once", "sym_twice"} =>
            /\ blank <=> sym1 = <<>>
            /\ ~blank => /\ EndsWith(sym1, DotIS)
                         /\ sym1 = (IF EndsWith(code, DotIS) THEN code ELSE code \o DotIS)
                         /\ \A i \in 1..Len(sym1) : sym1[i] \notin {"a", "i", "s"}
                         /\ sym1[1] \notin Whitespace

C9_Witness ==
    /\ pc = "sym_twice"
    /\ bist_code = <<" ", "a", ".", "i", "S">>
    /\ sym1 = <<"A", ".", "I", "S">>
    /\ sym2 = sym1

\* C1: in every row of the displayed table a cell is highlighted exactly when
\* its column is one of the three target columns, the row's price and that
\* target are both present (not None, not NaN) and price >= target; with the
\* price or the target missing it is not, and no other column's cell ever is.
\* For the targets "100,00" and "5,00" and the price 55: the derived target is
\* 50 and is reached, the TL target is not, the EURO target is.
C1_ReachedIffPriceGeTarget ==
    pc = "styled" =>
        /\ Len(styles) = Len(display)
        /\ \A i \in 1..Len(display) :
             LET row == display[i]
                 price == row["Hisse Fiyati"]
             IN /\ \A c \in DisplayCols :
                      styles[i][c] <=>
                        /\ c \in TargetCols
                        /\ price \notin {None, NaN}
                        /\ row[c] \notin {None, NaN}
                        /\ (price = Inf \/ price[2] * Pow10(row[c][3]) >= row[c][2] * Pow10(price[3]))
                /\ (price = <<"num", 55, 0>> /\ row["VWAP TL Hedef"] = <<"num", 100, 0>>
                      /\ row["VWAP EURO HEDEF"] = <<"num", 5, 0>>)
                   => /\ row["VWAP Yuzde 30 Hedef"] = <<"num", 50, 0>>
                      /\ styles[i]["VWAP Yuzde 30 Hedef"]
                      /\ ~styles[i]["VWAP TL Hedef"]
                      /\ styles[i]["VWAP EURO HEDEF"]

C1_Witness ==
    /\ pc = "styled"
    /\ Len(display) = 2
    /\ display[1]["Hisse Fiyati"] = <<"num", 50, 0>>
    /\ display[1]["VWAP Yuzde 30 Hedef"] = <<"num", 50, 0>>
    /\ styles[1]["VWAP Yuzde 30 Hedef"]
    /\ ~styles[1]["VWAP TL Hedef"]
    /\ display[2]["Hisse Fiyati"] = NaN
    /\ display[2]["VWAP EURO HEDEF"] = <<"num", 5, 0>>
    /\ ~styles[2]["VWAP EURO HEDEF"]

\* C7: when the sheet lacks the Ticker column the run stops with an error that
\* names exactly the required columns the sheet lacks, before any price query
\* is issued and before any row is evaluated.
C7_SchemaErrorListsMissing ==
    (pc = "stopped" /\ error.kind # "load" /\ "Ticker" \notin columns) =>
        /\ error.cols = RequiredCols \ columns
        /\ ~m1.issued
        /\ display = <<>>

\* C2: the mapping download_prices_batch builds and returns has exactly the
\* requested tickers as its keys, whatever the provider answers; and when both
\* bulk queries throw (the daily one is not issued for an empty list), every
\* requested ticker has been attempted in the single-symbol loop by the return.
C2_KeysExactlyRequested ==
    /\ pc \in {"m1done", "d1done", "returned"} => DOMAIN prices = Range(bist_tickers)
    /\ (pc = "returned" /\ m1.kind = "throws" /\ d1.kind \in {"throws", "none"}) =>
            /\ Range(still) = Range(bist_tickers)
            /\ i3 = Len(still)

C2_Witness ==
    /\ pc = "returned"
    /\ m1.kind = "throws"
    /\ d1.kind = "throws"
    /\ bist_tickers = <<<<"a">>, <<>>, <<"S">>>>
    /\ i3 = 3
    /\ DOMAIN prices = {<<"a">>, <<>>, <<"S">>}

\* C3: download_prices_batch never raises to its caller, and a ticker whose own
\* fast_info query answered a finite price has that price in the mapping, also
\* when both bulk queries and the other tickers' queries throw.
C3_FailuresIsolated ==
    /\ pc # "raised"
    /\ \A t \in DOMAIN fast_seen : fast_seen[t] # NotAsked => prices[t] = fast_seen[t]

C3_Witness ==
    /\ pc = "returned"
    /\ m1.kind = "throws"
    /\ d1.kind = "throws"
    /\ bist_tickers = <<<<"a">>, <<"S">>, <<"I">>>>
    /\ fast_seen[<<"S">>] = P_FAST
    /\ prices[<<"S">>] = P_FAST
    /\ prices[<<"a">>] = None
    /\ prices[<<"I">>] = None
    /\ last3.tk = "throws"

\* C4: in the single-symbol loop a fast snapshot that throws, is absent or is
\* not finite (NaN, Infinity) makes the loop fall back to the daily history:
\* when that history holds a finite close c, the ticker's price is c.
C4_FallbackOnNonFinite ==
    (pc \in {"d1done", "returned"} /\ last3.tk = "ok"
        /\ last3.fast \in {Throws, None, NaN, Inf} /\ IsFinite(last3.hist))
    => prices[last3.ticker] = last3.hist

\* C5: every value of the mapping is None or a finite number.
C5_ValuesNoneOrFinite ==
    \A t \in DOMAIN prices : prices[t] = None \/ IsFinite(prices[t])

\* what C6 asks of one step of the call
C6Step ==
    /\ pc = "call" => ~m1.issued /\ ~d1.issued /\ i3 = 0
    /\ (pc = "call" /\ pc' = "m1done") =>
            /\ m1'.issued /\ ~d1'.issued /\ i3' = 0
            /\ \A t \in Range(bist_tickers) : t # <<>> => to_yahoo_symbol(t) \in Range(m1'.symbols)
    /\ (pc = "m1done" /\ pc' = "d1done") =>
            LET miss == {t \in DOMAIN prices : prices[t] = None}
            IN /\ d1'.issued <=> miss # {}
               /\ Range(d1'.tickers) = miss
               /\ Len(d1'.tickers) = Cardinality(miss)
               /\ d1'.symbols = [i \in 1..Len(d1'.tickers) |-> to_yahoo_symbol(d1'.tickers[i])]
               /\ Range(still') = {t \in DOMAIN prices' : prices'[t] = None}
               /\ Len(still') = Cardinality(Range(still'))
               /\ i3' = 0
    /\ i3' # i3 =>
            /\ pc = "d1done" /\ i3' = i3 + 1 /\ i3' <= Len(still)
            /\ prices[still[i3']] = None
            /\ \A t \in DOMAIN prices : t # still[i3'] => prices'[t] = prices[t]
    /\ pc # "call" => \A t \in DOMAIN prices : prices[t] # None => prices'[t] = prices[t]
    /\ m1.issued => m1' = m1
    /\ pc \in {"d1done", "returned"} => d1' = d1 /\ still' = still

C10_OwnSymbol ==
    \A t \in DOMAIN src : src[t] # None => src[t] = to_yahoo_symbol(t)

====
